---- MODULE Spec2Model ----
(***************************************************************************)
(* Model of script.py: the batch job that assigns applications to business *)
(* units (BUs) named by the first four letters of the application name.    *)
(*                                                                         *)
(* Strings the code inspects (names, hrefs, BU identifiers) are sequences  *)
(* of one-character strings; opaque strings (application GUIDs, labels)    *)
(* are TLA+ strings.  The remote platform is modelled as the state the     *)
(* script reads and writes through its five calls: it keeps what a POST    *)
(* or PUT stored (read-after-write), a request that fails in transport has *)
(* no effect on it, and a PUT naming a BU identifier it does not know is   *)
(* answered with an error status.                                          *)
(***************************************************************************)
EXTENDS Integers, Sequences, FiniteSets, TLC

\* ---------------------------------------------------------------- bounds
MaxApps == 2       \* longest generated application listing
MaxBUs == 1        \* longest initial BU listing
PageLen == 1       \* items the remote serves per page
MaxRuns == 2       \* invocations of the script in one behaviour

MaxNameLen == 6    \* longest generated string given to the resolver

\* ------------------------------------------------------ program constants
MAX_RETRIES == 3

\* ------------------------------------------------------------ strings
Upper == {"A","B","C","D","E","F","G","H","I","J","K","L","M",
          "N","O","P","Q","R","S","T","U","V","W","X","Y","Z"}
Lower == {"a","b","c","d","e","f","g","h","i","j","k","l","m",
          "n","o","p","q","r","s","t","u","v","w","x","y","z"}

\* Python's None / JSON null for a string-valued field.
None == <<"<None>">>
\* Python's `not x` for a string-or-None value.
Falsy(x) == x = None \/ x = <<>>
\* Python's `x or ""`.
OrEmpty(x) == IF Falsy(x) THEN <<>> ELSE x

\* JSON null for an application GUID.
Null == "null"
FalsyGuidEmptyOnly(g) == g = ""
FalsyGuid(g) == g = Null \/ g = ""

NO_NAME == <<"<","n","o","-","n","a","m","e",">">>
DRYRUN_SUFFIX == <<"_","D","R","Y","R","U","N">>

\* Mutant: the pattern lacks the hyphen after the four letters.
extract_bu_name_no_hyphen(app_name) ==
    IF /\ Len(app_name) >= 4
       /\ \A i \in 1..4 : app_name[i] \in Upper \cup Lower
    THEN SubSeq(app_name, 1, 4)
    ELSE None

\* re.match(r"^([A-Za-z]{4})-", app_name): group 1, or None.
extract_bu_name(app_name) ==
    IF /\ Len(app_name) >= 5
       /\ \A i \in 1..4 : app_name[i] \in Upper \cup Lower
       /\ app_name[5] = "-"
    THEN SubSeq(app_name, 1, 4)
    ELSE None

\* href.rstrip("/")
RECURSIVE RStrip(_)
RStrip(s) ==
    IF s # <<>> /\ s[Len(s)] = "/" THEN RStrip(SubSeq(s, 1, Len(s) - 1)) ELSE s

\* s.split("/")[-1]
LastSegment(s) ==
    LET cuts == {i \in 1..Len(s) : s[i] = "/"}
    IN  IF cuts = {} THEN s
        ELSE SubSeq(s, (CHOOSE i \in cuts : \A j \in cuts : j <= i) + 1, Len(s))

\* href.rstrip("/").split("/")[-1]
GuidOfHref(href) == LastSegment(RStrip(href))

\* ------------------------------------------------------ the input universe
ABCD_app == <<"A","B","C","D","-","a","p","p">>
WXYZ_a   == <<"W","X","Y","Z","-","a">>
badname  == <<"b","a","d","n","a","m","e">>
x_name   == <<"x">>
ABCD     == <<"A","B","C","D">>
WXYZ     == <<"W","X","Y","Z">>

U1 == <<"u","1">>
U2 == <<"u","2">>

\* BU listing entries: bu_name (or None) and _links.self.href ("" if absent).
BUEntries ==
    { [bu_name |-> ABCD, href |-> <<"b","/","u","1","/">>],
      [bu_name |-> ABCD, href |-> <<>>],
      [bu_name |-> None, href |-> <<"b","/","u","2">>] }

AppGuids == <<"g1", "g2", "g3", "g4", "g5">>

\* Application kinds: a GUID (present or null) and a name.
AppKinds ==
    { [has_guid |-> TRUE,  name |-> ABCD_app],
      [has_guid |-> FALSE, name |-> ABCD_app],
      [has_guid |-> TRUE,  name |-> badname],
      [has_guid |-> TRUE,  name |-> WXYZ_a] }

SeqsUpTo(S, n) == UNION { [1..k -> S] : k \in 0..n }

MkApp(kind, i) ==
    [guid |-> IF kind.has_guid THEN AppGuids[i] ELSE Null,
     profile |-> [name |-> kind.name]]

\* The listing of the end-to-end scenario of the specification.
ScenarioApps ==
    << [guid |-> "g1", profile |-> [name |-> ABCD_app]],
       [guid |-> Null, profile |-> [name |-> x_name]],
       [guid |-> "g2", profile |-> [name |-> badname]] >>

AppListings ==
    { [i \in 1..Len(ks) |-> MkApp(ks[i], i)] : ks \in SeqsUpTo(AppKinds, MaxApps) }
    \cup {ScenarioApps}

BUListings == SeqsUpTo(BUEntries, MaxBUs)

GuidsIn(listing) ==
    { listing[i].guid : i \in {j \in 1..Len(listing) : ~FalsyGuid(listing[j].guid)} }

\* BU identifiers the remote knows: those derivable from its listing.
KnownBUGuids(bus) ==
    { GuidOfHref(bus[i].href) : i \in 1..Len(bus) } \ {<<>>}

NameOfGuid(listing, g) ==
    LET i == CHOOSE j \in 1..Len(listing) : listing[j].guid = g
    IN  listing[i].profile.name

\* The report file as an earlier run left it: one row, which no run of this
\* model produces.
OldReport ==
    << [app_name |-> <<"o","l","d">>, app_guid |-> "g0", bu_name |-> <<>>,
        current_bu_guid |-> <<>>, target_bu_guid |-> <<>>,
        bu_action |-> "", app_action |-> "assign_dryrun"] >>

\* ---------------------------------------------------------------- state
VARIABLES
    dry_run,     \* args.dry_run
    run,         \* which invocation of the script this is
    rBUs,        \* remote: the BU listing, in listing order
    rApps,       \* remote: the application listing
    rAppBU,      \* remote: application GUID -> current BU identifier or None
    nextId,      \* remote: number of the next BU identifier it hands out
    pc,          \* position of the script
    page,        \* page index of the listing fetch in progress
    bu_map,      \* process_apps.bu_map / fetch_business_units.result
    apps,        \* process_apps.apps / fetch_all_apps.apps
    idx,         \* position of the `for app in apps` loop (1-based)
    loc,         \* locals of the loop body: bu_name, bu_guid, bu_action, full
    csv_rows,    \* process_apps.csv_rows
    csv_file,    \* the report file: the rows it holds
    sr,          \* the send_request call in progress or last finished: its
                 \* loop variable, and as history its session.request calls
                 \* (tries), the outcome of the last one, its sleeps and warnings
    calls,       \* history: the send_request calls of this run, in order
    seen_bus,    \* history: the items of the BU pages fetched in this run
    outcomes,    \* history: per processed application, its bu/app action
    prev         \* history: the outcomes of the previous run

vars == << dry_run, run, rBUs, rApps, rAppBU, nextId, pc, page, bu_map, apps,
           idx, loc, csv_rows, csv_file, sr, calls, seen_bus, outcomes, prev >>

remote == << rBUs, rApps, rAppBU, nextId >>

EmptyMap == [n \in {} |-> <<>>]
NoLoc == [bu_name |-> <<>>, bu_guid |-> <<>>, bu_action |-> "", full |-> <<>>]
IdleSR == [state |-> "idle", method |-> "", url |-> "", arg |-> <<>>,
           attempt |-> 0, tries |-> 0, sleeps |-> <<>>, warns |-> 0,
           last |-> "", status |-> "", body |-> <<>>]

Init ==
    /\ dry_run \in BOOLEAN
    /\ run = 1
    /\ rBUs \in BUListings
    /\ rApps \in AppListings
    /\ rAppBU \in { f \in [GuidsIn(rApps) -> {None} \cup KnownBUGuids(rBUs)] :
                      \A g \in GuidsIn(rApps) :
                          f[g] # None => NameOfGuid(rApps, g) = ABCD_app }
    /\ nextId = 1
    /\ pc = "fetch_bus"
    /\ page = 0
    /\ bu_map = EmptyMap
    /\ apps = <<>>
    /\ idx = 1
    /\ loc = NoLoc
    /\ csv_rows = <<>>
    /\ csv_file = OldReport
    /\ sr = IdleSR
    /\ calls = <<>>
    /\ seen_bus = <<>>
    /\ outcomes = <<>>
    /\ prev = <<>>

\* ------------------------------------------------------------ the remote
Min(a, b) == IF a <= b THEN a ELSE b

\* The page-th page of a listing, PageLen items a page; empty past the end.
PageOf(listing, p) ==
    SubSeq(listing, p * PageLen + 1, Min((p + 1) * PageLen, Len(listing)))

Digits == <<"1","2","3","4","5","6","7","8","9">>
NewHref(n) == <<"b","/","n", Digits[n]>>

\* GET /applications/{guid}: the full record, with the current BU reference.
DetailOf(g) ==
    [guid |-> g,
     profile |-> [name |-> NameOfGuid(rApps, g),
                  business_unit |-> rAppBU[g],
                  policy |-> <<"policy-of", g>>]]

\* The responses the remote can give to the request in progress.
Outcomes ==
    {"exc", "err"}
    \cup (IF sr.method = "PUT" /\ sr.arg.payload.profile.business_unit
                                      \notin KnownBUGuids(rBUs)
          THEN {} ELSE {"ok"})
    \cup (IF sr.method = "POST" THEN {"ok_nolink"} ELSE {})

\* What a delivered, successful request does to the remote, and its body.
RemoteServes(outcome) ==
    CASE sr.method = "GET" /\ sr.url = "BU" ->
           /\ sr' = [sr EXCEPT !.state = "returned", !.tries = @ + 1,
                               !.last = outcome, !.status = "ok", !.body = PageOf(rBUs, sr.arg)]
           /\ UNCHANGED remote
      [] sr.method = "GET" /\ sr.url = "APPS" ->
           /\ sr' = [sr EXCEPT !.state = "returned", !.tries = @ + 1,
                               !.last = outcome, !.status = "ok", !.body = PageOf(rApps, sr.arg)]
           /\ UNCHANGED remote
      [] sr.method = "GET" /\ sr.url = "APP" ->
           /\ sr' = [sr EXCEPT !.state = "returned", !.tries = @ + 1,
                               !.last = outcome, !.status = "ok", !.body = DetailOf(sr.arg)]
           /\ UNCHANGED remote
      [] sr.method = "POST" ->
           /\ rBUs' = Append(rBUs, [bu_name |-> sr.arg, href |-> NewHref(nextId)])
           /\ nextId' = nextId + 1
           /\ sr' = [sr EXCEPT !.state = "returned", !.tries = @ + 1,
                               !.last = outcome, !.status = "ok",
                               !.body = IF outcome = "ok" THEN NewHref(nextId)
                                        ELSE <<>>]
           /\ UNCHANGED << rApps, rAppBU >>
      [] sr.method = "PUT" ->
           /\ rAppBU' = [rAppBU EXCEPT
                           ![sr.arg.guid] = sr.arg.payload.profile.business_unit]
           /\ sr' = [sr EXCEPT !.state = "returned", !.tries = @ + 1,
                               !.last = outcome, !.status = "ok", !.body = <<>>]
           /\ UNCHANGED << rBUs, rApps, nextId >>

\* ---------------------------------------------------------- send_request
\* Mutant: an error status is treated as a failure to retry.
CaughtWithStatus(outcome) == outcome \in {"exc", "err"}

\* `except requests.RequestException`: only transport failures are caught.
Caught(outcome) == outcome = "exc"

\* Mutant: the attempt cap is tested one iteration late.
ExhaustedLate(attempt) == attempt = MAX_RETRIES + 1

\* `if attempt == MAX_RETRIES: raise`
Exhausted(attempt) == attempt = MAX_RETRIES

\* Mutant: a constant wait between attempts.
BackoffConstant(attempt) == 1

\* `time.sleep(attempt)`
Backoff(attempt) == attempt

\* The call of send_request(session, method, url, ...): the loop is entered.
StartRequest(method, url, arg) ==
    /\ sr' = [IdleSR EXCEPT !.state = "active", !.method = method,
                            !.url = url, !.arg = arg, !.attempt = 1]
    /\ calls' = Append(calls, [method |-> method, url |-> url, arg |-> arg])

\* One iteration of `for attempt in range(1, MAX_RETRIES + 1)`.
SendAttempt ==
    /\ sr.state = "active"
    /\ \E outcome \in Outcomes :
         IF Caught(outcome)
         THEN /\ IF Exhausted(sr.attempt)
                 THEN /\ sr' = [sr EXCEPT !.state = "raised", !.tries = @ + 1,
                                          !.last = outcome]
                      /\ pc' = "raised"
                 ELSE /\ sr' = [sr EXCEPT !.tries = @ + 1,
                                          !.last = outcome,
                                          !.warns = @ + 1,
                                          !.sleeps = Append(@, Backoff(sr.attempt)),
                                          !.attempt = @ + 1]
                      /\ UNCHANGED pc
              /\ UNCHANGED remote
         ELSE /\ IF outcome = "err"
                 THEN /\ sr' = [sr EXCEPT !.state = "returned", !.tries = @ + 1,
                                          !.last = outcome, !.status = "err"]
                      /\ UNCHANGED remote
                 ELSE RemoteServes(outcome)
              /\ UNCHANGED pc
    /\ UNCHANGED << dry_run, run, page, bu_map, apps, idx, loc, csv_rows,
                    csv_file, calls, seen_bus, outcomes, prev >>

\* r.raise_for_status(): raises on an error status.
raise_for_status(status) == status = "err"

\* ------------------------------------------------- fetch_business_units
MapPut(m, k, v) == [n \in DOMAIN m \cup {k} |-> IF n = k THEN v ELSE m[n]]

\* Lines 105-109: one entry of a page into the result.
PutBU(result, bu) ==
    LET name == bu.bu_name
        guid == GuidOfHref(bu.href)
    IN  IF ~Falsy(name) /\ ~Falsy(guid) THEN MapPut(result, name, guid) ELSE result

RECURSIVE MergeBUs(_, _)
MergeBUs(result, bu_list) ==
    IF bu_list = <<>> THEN result
    ELSE MergeBUs(PutBU(result, Head(bu_list)), Tail(bu_list))

FetchBUsCall ==
    /\ pc = "fetch_bus"
    /\ sr.state \in {"idle", "handled"}
    /\ StartRequest("GET", "BU", page)
    /\ UNCHANGED << dry_run, run, remote, pc, page, bu_map, apps, idx, loc,
                    csv_rows, csv_file, seen_bus, outcomes, prev >>

FetchBUsResp ==
    /\ pc = "fetch_bus"
    /\ sr.state = "returned"
    /\ sr' = [sr EXCEPT !.state = "handled"]
    /\ IF raise_for_status(sr.status)
       THEN pc' = "raised" /\ UNCHANGED << page, bu_map, seen_bus >>
       ELSE IF sr.body = <<>>
            THEN pc' = "fetch_apps" /\ page' = 0 /\ UNCHANGED << bu_map, seen_bus >>
            ELSE /\ bu_map' = MergeBUs(bu_map, sr.body)
                 /\ seen_bus' = seen_bus \o sr.body
                 /\ page' = page + 1
                 /\ UNCHANGED pc
    /\ UNCHANGED << dry_run, run, remote, apps, idx, loc, csv_rows, csv_file,
                    calls, outcomes, prev >>

\* ------------------------------------------------------- fetch_all_apps
\* Mutant: the page index is not advanced after a non-empty page.
FetchAppsRespSamePage ==
    /\ pc = "fetch_apps"
    /\ sr.state = "returned"
    /\ sr' = [sr EXCEPT !.state = "handled"]
    /\ IF raise_for_status(sr.status)
       THEN pc' = "raised" /\ UNCHANGED apps
       ELSE IF sr.body = <<>>
            THEN pc' = "loop" /\ UNCHANGED apps
            ELSE apps' = apps \o sr.body /\ UNCHANGED pc
    /\ UNCHANGED << dry_run, run, remote, page, bu_map, idx, loc, csv_rows,
                    csv_file, calls, seen_bus, outcomes, prev >>

\* Mutant: the loop over the applications starts after the first page.
FetchAppsRespEager ==
    /\ pc = "fetch_apps"
    /\ sr.state = "returned"
    /\ sr' = [sr EXCEPT !.state = "handled"]
    /\ IF raise_for_status(sr.status)
       THEN pc' = "raised" /\ UNCHANGED << page, apps >>
       ELSE /\ apps' = apps \o sr.body
            /\ page' = page + 1
            /\ pc' = "loop"
    /\ UNCHANGED << dry_run, run, remote, bu_map, idx, loc, csv_rows, csv_file,
                    calls, seen_bus, outcomes, prev >>

FetchAppsCall ==
    /\ pc = "fetch_apps"
    /\ sr.state \in {"idle", "handled"}
    /\ StartRequest("GET", "APPS", page)
    /\ UNCHANGED << dry_run, run, remote, pc, page, bu_map, apps, idx, loc,
                    csv_rows, csv_file, seen_bus, outcomes, prev >>

FetchAppsResp ==
    /\ pc = "fetch_apps"
    /\ sr.state = "returned"
    /\ sr' = [sr EXCEPT !.state = "handled"]
    /\ IF raise_for_status(sr.status)
       THEN pc' = "raised" /\ UNCHANGED << page, apps >>
       ELSE IF sr.body = <<>>
            THEN pc' = "loop" /\ UNCHANGED << page, apps >>
            ELSE /\ apps' = apps \o sr.body
                 /\ page' = page + 1
                 /\ UNCHANGED pc
    /\ UNCHANGED << dry_run, run, remote, bu_map, idx, loc, csv_rows, csv_file,
                    calls, seen_bus, outcomes, prev >>

\* --------------------------------------------------------- process_apps
\* Lines 193-195: the name and GUID of the application under the loop.
AppName(app) == IF Falsy(app.profile.name) THEN NO_NAME ELSE app.profile.name

\* Lines 198-206: the base CSV row.
BaseRow(app) ==
    [app_name |-> AppName(app),
     app_guid |-> IF FalsyGuid(app.guid) THEN "" ELSE app.guid,
     bu_name |-> <<>>, current_bu_guid |-> <<>>, target_bu_guid |-> <<>>,
     bu_action |-> "", app_action |-> ""]

\* What one iteration of the loop decided: the values of its locals.
Outcome(bu_name, bu_action, current_guid, bu_guid, app_action) ==
    [bu_name |-> bu_name, bu_action |-> bu_action, current |-> current_guid,
     target |-> bu_guid, app_action |-> app_action]

\* `if dry_run: ...; csv_rows.append(row)`
Record(rows, dry, row) == IF dry THEN Append(rows, row) ELSE rows

\* Mutant: the skip `continue`s without recording its row.
SkipNoGuidNoRow ==
    /\ pc = "loop"
    /\ idx <= Len(apps)
    /\ FalsyGuid(apps[idx].guid)
    /\ outcomes' = Append(outcomes, Outcome(<<>>, "", None, <<>>, "skip_no_guid"))
    /\ idx' = idx + 1
    /\ UNCHANGED << dry_run, run, remote, pc, page, bu_map, apps, loc, csv_rows,
                    csv_file, sr, calls, seen_bus, prev >>

\* Lines 208-213: an application without a GUID is skipped.
SkipNoGuid ==
    /\ pc = "loop"
    /\ idx <= Len(apps)
    /\ FalsyGuid(apps[idx].guid)
    /\ csv_rows' = Record(csv_rows, dry_run,
                          [BaseRow(apps[idx]) EXCEPT !.app_action = "skip_no_guid"])
    /\ outcomes' = Append(outcomes, Outcome(<<>>, "", None, <<>>, "skip_no_guid"))
    /\ idx' = idx + 1
    /\ UNCHANGED << dry_run, run, remote, pc, page, bu_map, apps, loc, csv_file,
                    sr, calls, seen_bus, prev >>

\* Mutant: the name is tested without the GUID test before it.
SkipNameFormatFirst ==
    /\ pc = "loop"
    /\ idx <= Len(apps)
    /\ Falsy(extract_bu_name(AppName(apps[idx])))
    /\ csv_rows' = Record(csv_rows, dry_run,
                          [BaseRow(apps[idx]) EXCEPT !.app_action = "skip_name_format"])
    /\ outcomes' = Append(outcomes, Outcome(<<>>, "", None, <<>>, "skip_name_format"))
    /\ idx' = idx + 1
    /\ UNCHANGED << dry_run, run, remote, pc, page, bu_map, apps, loc, csv_file,
                    sr, calls, seen_bus, prev >>

\* Lines 215-224: a name outside the convention is skipped.
SkipNameFormat ==
    /\ pc = "loop"
    /\ idx <= Len(apps)
    /\ ~FalsyGuid(apps[idx].guid)
    /\ Falsy(extract_bu_name(AppName(apps[idx])))
    /\ csv_rows' = Record(csv_rows, dry_run,
                          [BaseRow(apps[idx]) EXCEPT !.app_action = "skip_name_format"])
    /\ outcomes' = Append(outcomes, Outcome(<<>>, "", None, <<>>, "skip_name_format"))
    /\ idx' = idx + 1
    /\ UNCHANGED << dry_run, run, remote, pc, page, bu_map, apps, loc, csv_file,
                    sr, calls, seen_bus, prev >>

\* Mutant: create_business_unit ignores dry_run and always posts.
SimulatedNever(dry) == FALSE

\* create_business_unit, line 118: the simulated branch is taken.
Simulated(dry) == dry

\* Lines 226-233 and create_business_unit: resolve the BU identifier, from
\* the mapping, by a simulated creation, or by starting the POST.
ResolveBU ==
    /\ pc = "loop"
    /\ idx <= Len(apps)
    /\ ~FalsyGuid(apps[idx].guid)
    /\ ~Falsy(extract_bu_name(AppName(apps[idx])))
    /\ LET bu_name == extract_bu_name(AppName(apps[idx]))
       IN  IF bu_name \in DOMAIN bu_map
           THEN /\ loc' = [NoLoc EXCEPT !.bu_name = bu_name,
                                        !.bu_guid = bu_map[bu_name],
                                        !.bu_action = "existing"]
                /\ pc' = "details"
                /\ UNCHANGED << bu_map, sr, calls >>
           ELSE IF Simulated(dry_run)
                THEN /\ loc' = [NoLoc EXCEPT !.bu_name = bu_name,
                                             !.bu_guid = bu_name \o DRYRUN_SUFFIX,
                                             !.bu_action = "create_dryrun"]
                     /\ bu_map' = MapPut(bu_map, bu_name, bu_name \o DRYRUN_SUFFIX)
                     /\ pc' = "details"
                     /\ UNCHANGED << sr, calls >>
                ELSE /\ loc' = [NoLoc EXCEPT !.bu_name = bu_name]
                     /\ StartRequest("POST", "BU", bu_name)
                     /\ pc' = "create"
                     /\ UNCHANGED bu_map
    /\ UNCHANGED << dry_run, run, remote, page, apps, idx, csv_rows, csv_file,
                    seen_bus, outcomes, prev >>

\* Mutant: the mapping is rebuilt around the created entry.
CreateRespReplaceMap ==
    /\ pc = "create"
    /\ sr.state = "returned"
    /\ sr' = [sr EXCEPT !.state = "handled"]
    /\ IF raise_for_status(sr.status)
       THEN pc' = "raised" /\ UNCHANGED << loc, bu_map >>
       ELSE /\ loc' = [loc EXCEPT !.bu_guid = GuidOfHref(sr.body),
                                  !.bu_action = "create"]
            /\ bu_map' = MapPut(EmptyMap, loc.bu_name, GuidOfHref(sr.body))
            /\ pc' = "details"
    /\ UNCHANGED << dry_run, run, remote, page, apps, idx, csv_rows, csv_file,
                    calls, seen_bus, outcomes, prev >>

\* Mutant: the created identifier is not stored in the mapping.
CreateRespNoStore ==
    /\ pc = "create"
    /\ sr.state = "returned"
    /\ sr' = [sr EXCEPT !.state = "handled"]
    /\ IF raise_for_status(sr.status)
       THEN pc' = "raised" /\ UNCHANGED loc
       ELSE /\ loc' = [loc EXCEPT !.bu_guid = GuidOfHref(sr.body),
                                  !.bu_action = "create"]
            /\ pc' = "details"
    /\ UNCHANGED << dry_run, run, remote, page, apps, idx, csv_rows, csv_file,
                    bu_map, calls, seen_bus, outcomes, prev >>

\* create_business_unit, lines 123-128, and process_apps, lines 232-233.
CreateResp ==
    /\ pc = "create"
    /\ sr.state = "returned"
    /\ sr' = [sr EXCEPT !.state = "handled"]
    /\ IF raise_for_status(sr.status)
       THEN pc' = "raised" /\ UNCHANGED << loc, bu_map >>
       ELSE LET bu_guid == GuidOfHref(sr.body)
            IN  /\ loc' = [loc EXCEPT !.bu_guid = bu_guid, !.bu_action = "create"]
                /\ bu_map' = MapPut(bu_map, loc.bu_name, bu_guid)
                /\ pc' = "details"
    /\ UNCHANGED << dry_run, run, remote, page, apps, idx, csv_rows, csv_file,
                    calls, seen_bus, outcomes, prev >>

\* get_app_details, lines 133-134.
DetailsCall ==
    /\ pc = "details"
    /\ sr.state \in {"idle", "handled"}
    /\ StartRequest("GET", "APP", apps[idx].guid)
    /\ UNCHANGED << dry_run, run, remote, pc, page, bu_map, apps, idx, loc,
                    csv_rows, csv_file, seen_bus, outcomes, prev >>

\* Line 237: full.get("profile", {}).get("business_unit", {}).get("guid")
CurrentGuid(full) == full.profile.business_unit

\* Lines 239-240, 253-256: the row of a processed application.
FullRow(app, l, current_guid, app_action) ==
    [BaseRow(app) EXCEPT !.bu_name = OrEmpty(l.bu_name),
                         !.current_bu_guid = OrEmpty(current_guid),
                         !.target_bu_guid = OrEmpty(l.bu_guid),
                         !.bu_action = l.bu_action,
                         !.app_action = app_action]

\* The end of one iteration of the loop for a processed application.
EndIteration(current_guid, app_action) ==
    /\ csv_rows' = Record(csv_rows, dry_run,
                          FullRow(apps[idx], loc, current_guid, app_action))
    /\ outcomes' = Append(outcomes, Outcome(loc.bu_name, loc.bu_action, current_guid,
                                              loc.bu_guid, app_action))
    /\ idx' = idx + 1
    /\ pc' = "loop"

\* Mutant: the comparison is lost and every application is updated.
AlreadyInBUNever(current_guid, bu_guid) == FALSE

\* Line 243: `if current_guid == bu_guid`
AlreadyInBU(current_guid, bu_guid) == current_guid = bu_guid

\* update_app_business_unit, lines 145-147: the simulated branch is taken.
UpdateSimulated(dry) == dry

\* get_app_details, lines 135-136, and process_apps, lines 237-251.
DetailsResp ==
    /\ pc = "details"
    /\ sr.state = "returned"
    /\ sr' = [sr EXCEPT !.state = "handled"]
    /\ IF raise_for_status(sr.status)
       THEN /\ pc' = "raised"
            /\ UNCHANGED << loc, idx, csv_rows, outcomes >>
       ELSE LET full == sr.body
                current_guid == CurrentGuid(full)
            IN  IF AlreadyInBU(current_guid, loc.bu_guid)
                THEN /\ EndIteration(current_guid, "already_in_bu")
                     /\ loc' = NoLoc
                ELSE IF UpdateSimulated(dry_run)
                     THEN /\ EndIteration(current_guid, "assign_dryrun")
                          /\ loc' = NoLoc
                     ELSE /\ loc' = [loc EXCEPT !.full = full]
                          /\ pc' = "update"
                          /\ UNCHANGED << idx, csv_rows, outcomes >>
    /\ UNCHANGED << dry_run, run, remote, page, bu_map, apps, csv_file, calls,
                    seen_bus, prev >>

\* Mutant: the payload is built anew and an unrelated field is lost.
PayloadLosesField(full, bu_guid) ==
    [profile |-> [full.profile EXCEPT !.business_unit = bu_guid, !.policy = <<>>]]

\* Mutant: the copied profile is sent back without the new BU reference.
PayloadUnpatched(full, bu_guid) == [profile |-> full.profile]

\* update_app_business_unit, lines 141-143: the payload.
Payload(full, bu_guid) ==
    [profile |-> [full.profile EXCEPT !.business_unit = bu_guid]]

\* update_app_business_unit, lines 149-150.
UpdateCall ==
    /\ pc = "update"
    /\ sr.state \in {"idle", "handled"}
    /\ StartRequest("PUT", "APP", [guid |-> apps[idx].guid,
                                   payload |-> Payload(loc.full, loc.bu_guid)])
    /\ UNCHANGED << dry_run, run, remote, pc, page, bu_map, apps, idx, loc,
                    csv_rows, csv_file, seen_bus, outcomes, prev >>

\* update_app_business_unit, lines 151-152, and process_apps, lines 251-256.
UpdateResp ==
    /\ pc = "update"
    /\ sr.state = "returned"
    /\ sr' = [sr EXCEPT !.state = "handled"]
    /\ IF raise_for_status(sr.status)
       THEN /\ pc' = "raised"
            /\ UNCHANGED << loc, idx, csv_rows, outcomes >>
       ELSE /\ EndIteration(CurrentGuid(loc.full), "assign")
            /\ loc' = NoLoc
    /\ UNCHANGED << dry_run, run, remote, page, bu_map, apps, csv_file, calls,
                    seen_bus, prev >>

\* Mutant: the file is opened for writing whatever the rows.
write_dry_run_csv_always(file, rows) == rows

\* write_dry_run_csv: no rows, no write; else the file is overwritten.
write_dry_run_csv(file, rows) == IF rows = <<>> THEN file ELSE rows

\* Lines 258-260 and the normal return to main: exit status 0.
Finish ==
    /\ pc = "loop"
    /\ idx > Len(apps)
    /\ csv_file' = IF dry_run THEN write_dry_run_csv(csv_file, csv_rows) ELSE csv_file
    /\ pc' = "exit0"
    /\ UNCHANGED << dry_run, run, remote, page, bu_map, apps, idx, loc, csv_rows,
                    sr, calls, seen_bus, outcomes, prev >>

\* Mutant: the handler prints the error and returns: exit status 0.
MainExceptNoExit ==
    /\ pc = "raised"
    /\ pc' = "exit0"
    /\ UNCHANGED << dry_run, run, remote, page, bu_map, apps, idx, loc, csv_rows,
                    csv_file, sr, calls, seen_bus, outcomes, prev >>

\* main, lines 272-274: any exception ends the process with status 1.
MainExcept ==
    /\ pc = "raised"
    /\ pc' = "exit1"
    /\ UNCHANGED << dry_run, run, remote, page, bu_map, apps, idx, loc, csv_rows,
                    csv_file, sr, calls, seen_bus, outcomes, prev >>

\* The script is run again, live, after a live run that ended with status 0:
\* a new process against the remote as the last run left it.
Rerun ==
    /\ pc = "exit0"
    /\ ~dry_run
    /\ run < MaxRuns
    /\ run' = run + 1
    /\ prev' = outcomes
    /\ pc' = "fetch_bus"
    /\ page' = 0
    /\ bu_map' = EmptyMap
    /\ apps' = <<>>
    /\ idx' = 1
    /\ loc' = NoLoc
    /\ csv_rows' = <<>>
    /\ sr' = IdleSR
    /\ calls' = <<>>
    /\ seen_bus' = <<>>
    /\ outcomes' = <<>>
    /\ UNCHANGED << dry_run, remote, csv_file >>

Next ==
    \/ FetchBUsCall
    \/ FetchBUsResp
    \/ FetchAppsCall
    \/ FetchAppsResp
    \/ SendAttempt
    \/ SkipNoGuid
    \/ SkipNameFormat
    \/ ResolveBU
    \/ CreateResp
    \/ DetailsCall
    \/ DetailsResp
    \/ UpdateCall
    \/ UpdateResp
    \/ Finish
    \/ MainExcept
    \/ Rerun

Spec == Init /\ [][Next]_vars

\* ================================================================ claims
IsPost(c) == c.method = "POST" /\ c.url = "BU"
IsPut(c) == c.method = "PUT" /\ c.url = "APP"
IsDetail(c) == c.method = "GET" /\ c.url = "APP"
CallsWhere(P(_)) == {k \in 1..Len(calls) : P(calls[k])}
Processed == {"already_in_bu", "assign", "assign_dryrun"}

\* C1: in dry-run mode every request issued is a GET: no POST to the BU
\* endpoint and no PUT to an application endpoint, and the remote is
\* as the run found it.
C1_DryRunOnlyReads ==
    dry_run =>
        /\ \A k \in 1..Len(calls) : calls[k].method = "GET"
        /\ sr.method \in {"", "GET"}
        /\ nextId = 1

\* A finished dry run that simulated a BU creation and an assignment.
C1_Witness ==
    /\ dry_run
    /\ pc = "exit0"
    /\ \E i \in 1..Len(outcomes) :
         /\ outcomes[i].bu_action = "create_dryrun"
         /\ outcomes[i].app_action = "assign_dryrun"

\* The action label a row may carry for an application, by its shape.
RowDescribes(row, app) ==
    /\ row.app_name = AppName(app)
    /\ row.app_guid = (IF FalsyGuid(app.guid) THEN "" ELSE app.guid)
    /\ row.app_action \in (IF FalsyGuid(app.guid) THEN {"skip_no_guid"}
                           ELSE {"skip_name_format", "already_in_bu", "assign_dryrun"})

\* C2: a dry run that completes has produced, and written, one row per
\* listed application, the i-th row describing the i-th application.
C2_DryRunRowPerApp ==
    (dry_run /\ pc = "exit0") =>
        /\ Len(csv_rows) = Len(rApps)
        /\ \A i \in 1..Len(csv_rows) : RowDescribes(csv_rows[i], rApps[i])
        /\ csv_rows # <<>> => csv_file = csv_rows

\* A finished dry run with an already-correct, a skipped and no other row.
C2_Witness ==
    /\ dry_run
    /\ pc = "exit0"
    /\ Len(csv_rows) = 2
    /\ csv_rows[1].app_action = "already_in_bu"
    /\ csv_rows[2].app_action = "skip_no_guid"
    /\ csv_rows[2].app_name = ABCD_app

\* C3: a send_request call makes at most MAX_RETRIES attempts; when it has
\* returned or raised, its backoff waits number its attempts minus one; it
\* raises only after MAX_RETRIES failed attempts; and a response on the
\* third attempt is returned after exactly two waits.
C3_RetryBound ==
    /\ sr.tries <= MAX_RETRIES
    /\ sr.state = "active" => sr.tries < MAX_RETRIES /\ sr.attempt = sr.tries + 1
    /\ sr.state \in {"returned", "handled", "raised"} =>
           Len(sr.sleeps) = sr.tries - 1
    /\ sr.state = "raised" =>
           sr.tries = MAX_RETRIES /\ sr.last = "exc" /\ pc \in {"raised", "exit1"}
    /\ sr.state \in {"returned", "handled"} =>
           sr.last \in {"ok", "ok_nolink", "err"} /\ sr.status \in {"ok", "err"}

\* Two transport failures, then a successful response on the third attempt.
C3_Witness ==
    /\ sr.state = "returned"
    /\ sr.status = "ok"
    /\ sr.tries = 3
    /\ Len(sr.sleeps) = 2

\* C4: an attempt that receives an error status ends the send_request call
\* at once, with no wait or warning after it and no further attempt; the
\* caller then raises, and the run ends with status 1 with no further call.
C4_ErrorStatusNotRetried ==
    [][ /\ (sr'.tries # sr.tries /\ sr'.last = "err") =>
               /\ sr'.state = "returned"
               /\ sr'.status = "err"
               /\ sr'.sleeps = sr.sleeps
               /\ sr'.warns = sr.warns
        /\ (sr.state = "returned" /\ sr.status = "err") =>
               /\ pc' = "raised"
               /\ sr'.tries = sr.tries
               /\ calls' = calls
        /\ (sr.state = "handled" /\ sr.status = "err") =>
               /\ pc' = "exit1"
               /\ sr' = sr
               /\ calls' = calls
      ]_vars

\* An error status on the first attempt of a call has aborted the run.
C4_Witness ==
    /\ pc = "exit1"
    /\ sr.status = "err"
    /\ sr.tries = 1
    /\ sr.sleeps = <<>>

\* The PUT calls made for the application at position i of the listing.
PutsFor(i) == {k \in CallsWhere(IsPut) : calls[k].arg.guid = apps[i].guid}

\* C5: an application whose current BU identifier equals the target is
\* recorded already_in_bu and no PUT is made for it; a PUT is made only in
\* a live run for an application whose current identifier differs.
C5_NoWriteWhenAlreadyInBU ==
    /\ \A i \in 1..Len(outcomes) :
         LET o == outcomes[i]
         IN  /\ o.app_action \in Processed =>
                  (o.current = o.target <=> o.app_action = "already_in_bu")
             /\ o.app_action # "assign" => PutsFor(i) = {}
             /\ o.app_action = "assign" =>
                  /\ Cardinality(PutsFor(i)) = 1
                  /\ ~dry_run
                  /\ o.current # o.target
    /\ \A k \in CallsWhere(IsPut) :
         /\ ~dry_run
         /\ \E i \in 1..Len(apps) :
              /\ k \in PutsFor(i)
              /\ i > Len(outcomes) =>
                   /\ i = idx
                   /\ CurrentGuid(loc.full) # loc.bu_guid
                   /\ calls[k].arg.payload.profile.business_unit = loc.bu_guid

\* A finished live run that left an already-correct application alone.
C5_Witness ==
    /\ ~dry_run
    /\ pc = "exit0"
    /\ \E i \in 1..Len(outcomes) :
         /\ outcomes[i].app_action = "already_in_bu"
         /\ outcomes[i].current = U1
         /\ PutsFor(i) = {}

\* The mapping fetch_business_units builds from the items it has seen.
FetchedMap == MergeBUs(EmptyMap, seen_bus)
\* The names of the items of the fetched BU listing.
ListedNames == {seen_bus[i].bu_name : i \in 1..Len(seen_bus)}
PostsFor(n) == {k \in CallsWhere(IsPost) : calls[k].arg = n}
Creations ==
    {i \in 1..Len(outcomes) : outcomes[i].bu_action \in {"create", "create_dryrun"}}
\* The names whose creation (real or simulated) has returned in this run.
CreatedNames ==
    {outcomes[i].bu_name : i \in Creations}
    \cup (IF loc.bu_action \in {"create", "create_dryrun"} THEN {loc.bu_name} ELSE {})

\* At most one create call per name, and none for a name in `held`.
CreatedOnce(held) ==
    /\ \A k \in CallsWhere(IsPost) :
         /\ ~dry_run
         /\ Cardinality(PostsFor(calls[k].arg)) = 1
         /\ calls[k].arg \notin held
    /\ \A i \in Creations :
         LET n == outcomes[i].bu_name
         IN  /\ n \notin held
             /\ ~dry_run => Cardinality(PostsFor(n)) = 1
             /\ \A j \in 1..Len(outcomes) :
                  (j # i /\ outcomes[j].bu_name = n) =>
                      (j > i /\ outcomes[j].bu_action = "existing")

\* C6 (as amended): a BU name absent from the mapping when an application
\* resolves to it is created by exactly one create call, after which the
\* mapping holds exactly one new entry, keyed by that name; later
\* applications of the same name find it, so there is at most one create
\* call per name per run, and none for a name the mapping built from the
\* fetched listing already held.
C6_CreatedOncePerName ==
    /\ CreatedOnce(DOMAIN FetchedMap)
    /\ DOMAIN bu_map = DOMAIN FetchedMap \cup CreatedNames
    /\ \A i \in Creations :
         /\ outcomes[i].bu_name \in DOMAIN bu_map
         /\ bu_map[outcomes[i].bu_name] = outcomes[i].target

\* C6 as stated: no create call for a name present in the fetched listing.
C6_Original == CreatedOnce(ListedNames)

\* Two applications of one new BU name in a live run: one POST, then found.
C6_Witness ==
    /\ ~dry_run
    /\ pc = "exit0"
    /\ \E i, j \in 1..Len(outcomes) :
         /\ i < j
         /\ outcomes[i].bu_action = "create"
         /\ outcomes[j].bu_action = "existing"
         /\ outcomes[j].bu_name = outcomes[i].bu_name
         /\ Cardinality(PostsFor(outcomes[i].bu_name)) = 1

\* The page indices requested from a listing endpoint, in request order.
PageCalls(url) == SelectSeq(calls, LAMBDA c : c.method = "GET" /\ c.url = url)
PageArgs(url) == [i \in 1..Len(PageCalls(url)) |-> PageCalls(url)[i].arg]
NPages(listing) == (Len(listing) + PageLen - 1) \div PageLen
CountingFrom0(a) == \A i \in 1..Len(a) : a[i] = i - 1
BUsFetched == pc \in {"fetch_apps", "loop", "create", "details", "update", "exit0"}
AppsFetched == pc \in {"loop", "create", "details", "update", "exit0"}

\* The requests of both listing fetches: indices 0..n, in order, once each,
\* ending with the one probe that returned the empty page; fetch_all_apps
\* yields the items of the pages in page order.
PagesInOrder ==
    /\ CountingFrom0(PageArgs("BU"))
    /\ CountingFrom0(PageArgs("APPS"))
    /\ BUsFetched => Len(PageArgs("BU")) = NPages(seen_bus) + 1
    /\ pc = "fetch_apps" => seen_bus = rBUs
    /\ AppsFetched => /\ Len(PageArgs("APPS")) = NPages(rApps) + 1
                      /\ apps = rApps

\* An item of the BU listing with a name and a derivable identifier.
ValidBU(e) == e.bu_name \notin {None, <<>>} /\ GuidOfHref(e.href) # <<>>

C9_FailureAbortsRun ==
    /\ [](sr.state = "raised" => pc \in {"raised", "exit1"})
    /\ []((sr.state = "handled" /\ sr.status = "err") => pc \in {"raised", "exit1"})
    /\ [](pc = "exit0" => idx = Len(rApps) + 1 /\ Len(outcomes) = Len(rApps))
    /\ [][ /\ pc = "raised" => pc' = "exit1"
           /\ pc \in {"raised", "exit1"} =>
                /\ pc' = "exit1"
                /\ calls' = calls
                /\ sr' = sr
                /\ remote' = remote
                /\ UNCHANGED << idx, outcomes, csv_rows, csv_file >>
         ]_vars

\* The first of two applications failed: exit status 1, the second untouched.
C9_Witness ==
    /\ pc = "exit1"
    /\ Len(apps) = 2
    /\ idx = 1
    /\ \E k \in 1..Len(calls) : IsDetail(calls[k])
    /\ ~FalsyGuid(apps[2].guid)
    /\ \A k \in 1..Len(calls) : IsDetail(calls[k]) => calls[k].arg # apps[2].guid

\* The naming convention: four letters, then a hyphen.
FollowsConvention(name) ==
    /\ Len(name) >= 5
    /\ \A i \in 1..4 : name[i] \in Upper \cup Lower
    /\ name[5] = "-"

InScenario == rApps = ScenarioApps /\ rBUs = <<>> /\ run = 1 /\ pc = "exit0"
\* The calls of the run after the two listing fetches.
LoopCalls == SelectSeq(calls, LAMBDA c : ~(c.method = "GET" /\ c.url \in {"BU", "APPS"}))

TargetOf(i) == IF i <= Len(outcomes) THEN outcomes[i].target ELSE loc.bu_guid
\* The position in the fetched listing of the application with GUID g.
PositionOf(g) == CHOOSE i \in 1..Len(apps) : apps[i].guid = g

\* C11: the payload of every PUT is the profile the remote holds for that
\* application with only business_unit replaced by the target identifier,
\* and the record the detail fetch returned is as it was read while the
\* update is made: it still carries the old BU reference.
C11_PayloadPreservesProfile ==
    /\ \A k \in CallsWhere(IsPut) :
         LET g == calls[k].arg.guid
         IN  calls[k].arg.payload =
                 [profile |-> [name |-> NameOfGuid(rApps, g),
                               business_unit |-> TargetOf(PositionOf(g)),
                               policy |-> <<"policy-of", g>>]]
    /\ pc = "update" =>
         /\ loc.full.guid = apps[idx].guid
         /\ loc.full.profile.name = NameOfGuid(rApps, apps[idx].guid)
         /\ loc.full.profile.policy = <<"policy-of", apps[idx].guid>>
         /\ loc.full.profile.business_unit # loc.bu_guid
         /\ ~(sr.method = "PUT" /\ sr.status = "ok") =>
                loc.full = DetailOf(apps[idx].guid)

\* A PUT that moved an application out of another BU has been answered.
C11_Witness ==
    /\ pc = "update"
    /\ sr.method = "PUT"
    /\ sr.state = "returned"
    /\ sr.status = "ok"
    /\ loc.full.profile.business_unit = U2
    /\ rAppBU[apps[idx].guid] = loc.bu_guid
    /\ loc.bu_guid # U2

\* ------------------------------------------- the resolver on its own
\* Strings over a letter of each case, the hyphen and a digit, and the
\* examples of the specification.
NameAlphabet == {"A", "b", "-", "1"}
NameExamples == { <<"A","B","C","D","-","a","p","p","1">>,
                  <<"A","B","-","a","p","p","1">>,
                  <<"a","b","c","d","-","x">>,
                  <<"-","l","e","a","d","i","n","g">> }
NameInputs == SeqsUpTo(NameAlphabet, MaxNameLen) \cup NameExamples

\* The loop of process_apps before line 216, for one application of any name.
InitResolver ==
    /\ dry_run = FALSE
    /\ run = 1
    /\ rBUs = <<>>
    /\ \E n \in NameInputs : rApps = << [guid |-> "g1", profile |-> [name |-> n]] >>
    /\ rAppBU = [g \in {"g1"} |-> None]
    /\ nextId = 1
    /\ pc = "loop"
    /\ page = 0
    /\ bu_map = EmptyMap
    /\ apps = rApps
    /\ idx = 1
    /\ loc = NoLoc
    /\ csv_rows = <<>>
    /\ csv_file = OldReport
    /\ sr = IdleSR
    /\ calls = <<>>
    /\ seen_bus = <<>>
    /\ outcomes = <<>>
    /\ prev = <<>>

\* Line 216 alone: bu_name = extract_bu_name(app_name).
ResolveName ==
    /\ pc = "loop"
    /\ loc' = [loc EXCEPT !.bu_name = extract_bu_name(apps[idx].profile.name)]
    /\ pc' = "resolved"
    /\ UNCHANGED << dry_run, run, remote, page, bu_map, apps, idx, csv_rows,
                    csv_file, sr, calls, seen_bus, outcomes, prev >>

NextResolver == ResolveName

SpecResolver == InitResolver /\ [][NextResolver]_vars

\* C12: for a string that begins with four letters and a hyphen the
\* resolver returns its first four characters as they are; for every other
\* string it returns no match.
C12_ResolverConvention ==
    pc = "resolved" =>
        LET n == apps[1].profile.name
        IN  IF /\ Len(n) >= 5
               /\ \A i \in 1..4 : \E c \in Upper \cup Lower : n[i] = c
               /\ n[5] = "-"
            THEN /\ Len(loc.bu_name) = 4
                 /\ \A i \in 1..4 : loc.bu_name[i] = n[i]
            ELSE loc.bu_name = None

\* The resolver has kept the case of a mixed-case prefix.
C12_Witness ==
    /\ pc = "resolved"
    /\ apps[1].profile.name = <<"A", "b", "b", "A", "-", "1">>
    /\ loc.bu_name = <<"A", "b", "b", "A">>

\* C13: within a run the BU mapping only grows: a name it holds stays, and
\* after the listing fetch the identifier of a name is never replaced, so
\* the mapping always holds the fetched entries as they were fetched (one
\* entry per name: the mapping is a function of the name).
C13_MappingOnlyGrows ==
    /\ [](\A n \in DOMAIN FetchedMap :
             n \in DOMAIN bu_map /\ bu_map[n] = FetchedMap[n])
    /\ [][ run' = run =>
             \A n \in DOMAIN bu_map :
                 /\ n \in DOMAIN bu_map'
                 /\ pc # "fetch_bus" => bu_map'[n] = bu_map[n]
         ]_vars

\* A run has ended with a fetched entry and a created one side by side.
C13_Witness ==
    /\ pc = "exit0"
    /\ DOMAIN bu_map = {ABCD, WXYZ}
    /\ bu_map[ABCD] = U1
    /\ FetchedMap = [n \in {ABCD} |-> U1]
    /\ \E i \in Creations : outcomes[i].bu_name = WXYZ

\* C14: every entry of the BU mapping has a non-empty name and a non-empty
\* identifier, and no PUT names an empty target BU identifier.
C14_EntriesNonEmpty ==
    /\ \A n \in DOMAIN bu_map : ~Falsy(n) /\ ~Falsy(bu_map[n])
    /\ \A k \in CallsWhere(IsPut) :
         ~Falsy(calls[k].arg.payload.profile.business_unit)

\* The attempts of the current send_request call that ended in a transport
\* failure: all of them, but for the one that produced a response.
FailedAttempts == IF sr.last \in {"", "exc"} THEN sr.tries ELSE sr.tries - 1

\* C15: the wait after the k-th failed attempt is k time units; one warning
\* is emitted per failed attempt that is followed by a retry, none for the
\* final, propagated failure; no wait follows the last attempt.
C15_BackoffAndWarnings ==
    /\ \A k \in 1..Len(sr.sleeps) : sr.sleeps[k] = k
    /\ Len(sr.sleeps) = sr.warns
    /\ sr.warns = IF sr.state = "raised" THEN FailedAttempts - 1
                  ELSE FailedAttempts
    /\ sr.state = "raised" =>
           /\ FailedAttempts = MAX_RETRIES
           /\ sr.sleeps = [k \in 1..(MAX_RETRIES - 1) |-> k]
    /\ sr.state \in {"returned", "handled"} => Len(sr.sleeps) = sr.tries - 1

C15_Witness ==
    /\ sr.state = "raised"
    /\ sr.tries = 3
    /\ sr.sleeps = << 1, 2 >>
    /\ sr.warns = 2

\* A data-shape anomaly of a listed application: no GUID, or a name outside
\* the convention.
Anomalous(app) ==
    \/ app.guid \in {Null, ""}
    \/ ~FollowsConvention(AppName(app))

\* C16: an application with no GUID or with a name outside the convention
\* causes no remote call and no change to the BU mapping or to the remote,
\* raises nothing, and the loop moves to the next application; every
\* per-application call is made for an application without anomaly.
C16_AnomaliesAreSkips ==
    /\ [](pc \in {"create", "details", "update"} => ~Anomalous(apps[idx]))
    /\ [](\A k \in CallsWhere(LAMBDA c : IsDetail(c) \/ IsPut(c) \/ IsPost(c)) :
            \E i \in 1..Len(apps) :
               /\ ~Anomalous(apps[i])
               /\ IF IsPost(calls[k])
                  THEN calls[k].arg = extract_bu_name(AppName(apps[i]))
                  ELSE IF IsPut(calls[k]) THEN calls[k].arg.guid = apps[i].guid
                  ELSE calls[k].arg = apps[i].guid)
    /\ [][ (pc = "loop" /\ idx <= Len(apps) /\ Anomalous(apps[idx])) =>
             /\ calls' = calls
             /\ sr' = sr
             /\ bu_map' = bu_map
             /\ remote' = remote
             /\ pc' = "loop"
             /\ idx' = idx + 1
             /\ apps' = apps ]_vars

C16_Witness ==
    /\ pc = "exit0"
    /\ ~dry_run
    /\ Len(apps) = 2
    /\ apps[1].guid = Null
    /\ ~FollowsConvention(AppName(apps[2])) /\ apps[2].guid # Null
    /\ Len(outcomes) = 2
    /\ outcomes[1].app_action = "skip_no_guid"
    /\ outcomes[2].app_action = "skip_name_format"
    /\ LoopCalls = <<>>
    /\ bu_map = FetchedMap

\* C17: a live run accumulates no rows and leaves the report file alone; a
\* dry run leaves it alone until its normal end, so an aborted dry run writes
\* nothing; the one write happens at the end of a dry run that has rows and
\* stores exactly those rows; a dry run without rows writes nothing.
C17_ReportOnlyAtEndOfDryRun ==
    /\ [](~dry_run => csv_rows = <<>> /\ csv_file = OldReport)
    /\ []((dry_run /\ pc # "exit0") => csv_file = OldReport)
    /\ []((dry_run /\ pc = "exit0") =>
            csv_file = IF csv_rows = <<>> THEN OldReport ELSE csv_rows)
    /\ [][ csv_file' # csv_file =>
             /\ dry_run
             /\ pc = "loop" /\ idx > Len(apps) /\ pc' = "exit0"
             /\ csv_rows # <<>>
             /\ csv_file = OldReport
             /\ csv_file' = csv_rows ]_vars

C17_Witness ==
    /\ dry_run
    /\ pc = "exit1"
    /\ csv_rows # <<>>
    /\ csv_file = OldReport

\* The phase of a call: the BU listing, the application listing, the loop.
Phase(c) == IF c.method = "GET" /\ c.url = "BU" THEN 1
            ELSE IF c.method = "GET" /\ c.url = "APPS" THEN 2 ELSE 3

\* Within one application: create, then detail fetch, then update.
Rank(c) == IF IsPost(c) THEN 1 ELSE IF IsDetail(c) THEN 2 ELSE 3

\* The position in the listing of the application a loop call is made for:
\* a detail fetch and an update name its GUID; a BU create is followed, if
\* by anything, by the detail fetch of its application.
OwnerOf(k) ==
    IF IsDetail(calls[k]) THEN PositionOf(calls[k].arg)
    ELSE IF IsPut(calls[k]) THEN PositionOf(calls[k].arg.guid)
    ELSE IF k < Len(calls) /\ IsDetail(calls[k + 1])
         THEN PositionOf(calls[k + 1].arg)
         ELSE idx

CallOrder ==
    LET loopcalls == CallsWhere(LAMBDA c : Phase(c) = 3)
    IN
    /\ \A j, k \in 1..Len(calls) : j < k => Phase(calls[j]) <= Phase(calls[k])
    /\ CountingFrom0(PageArgs("BU")) /\ CountingFrom0(PageArgs("APPS"))
    /\ calls # <<>> => Phase(calls[1]) = 1
    /\ (\E k \in 1..Len(calls) : Phase(calls[k]) >= 2) =>
          /\ Len(PageArgs("BU")) = NPages(seen_bus) + 1
          /\ Len(seen_bus) <= Len(rBUs)
          /\ seen_bus = SubSeq(rBUs, 1, Len(seen_bus))
          /\ Len(rBUs) - Len(seen_bus) <= Cardinality(CallsWhere(IsPost))
    /\ loopcalls # {} =>
          /\ Len(PageArgs("APPS")) = NPages(rApps) + 1
          /\ apps = rApps
    /\ \A k \in loopcalls :
          /\ OwnerOf(k) \in 1..Len(apps)
          /\ OwnerOf(k) <= idx
          /\ pc \in {"loop", "exit0"} => OwnerOf(k) < idx
          /\ IsPost(calls[k]) =>
                /\ calls[k].arg = extract_bu_name(AppName(apps[OwnerOf(k)]))
                /\ k < Len(calls) => IsDetail(calls[k + 1])
          /\ IsPut(calls[k]) =>
                /\ k > 1
                /\ IsDetail(calls[k - 1])
                /\ calls[k - 1].arg = calls[k].arg.guid
    /\ \A j, k \in loopcalls :
          j < k => \/ OwnerOf(j) < OwnerOf(k)
                   \/ /\ OwnerOf(j) = OwnerOf(k)
                      /\ Rank(calls[j]) < Rank(calls[k])

\* C18: requests are issued one at a time and in a fixed order: the full BU
\* listing, then the full application listing, then the per-application
\* calls; for one application a BU create precedes the detail fetch, which
\* precedes the update, each at most once; the calls of application i
\* precede those of application i+1.
C18_SequentialFixedOrder ==
    /\ []CallOrder
    /\ [][ calls' # calls =>
             \/ /\ sr.state \in {"idle", "handled"}
                /\ sr'.state = "active"
                /\ Len(calls') = Len(calls) + 1
                /\ SubSeq(calls', 1, Len(calls)) = calls
             \/ run' # run /\ calls' = <<>> ]_vars

\* A live run aborted by a failed detail fetch, after the BU of the same
\* application has been created.
C18_Witness ==
    /\ ~dry_run
    /\ run = 1
    /\ pc = "exit1"
    /\ Len(calls) >= 2
    /\ IsPost(calls[Len(calls) - 1])
    /\ IsDetail(calls[Len(calls)])
    /\ calls[Len(calls)].arg = apps[idx].guid
    /\ Len(rBUs) = Len(seen_bus) + 1
    /\ rBUs[Len(rBUs)].bu_name = extract_bu_name(AppName(apps[idx]))

====
